---- MODULE Spec2Model ----
(***************************************************************************)
(* Credit-score dashboard: the App coordinator (src/src/App.js), the       *)
(* CompanySelector that feeds it tickers, and the CreditScoreDisplay       *)
(* classification functions (src/unnamed/part_001).                        *)
(*                                                                         *)
(* A JavaScript value that may be null is a sequence of length <= 1:       *)
(* Null is <<>>, the value v is <<v>>.  Scores are integers.  The ratio    *)
(* fields of a company record are integers on a small grid.                *)
(*                                                                         *)
(* utils/creditScoreCalculator and data/mockData are imported by App.js    *)
(* but are not among the source files; they are modelled from the          *)
(* specification (section 4.1, section 3).                                 *)
(***************************************************************************)
EXTENDS Integers, Sequences, FiniteSets

VARIABLES
    weights,          \* the calculator's weighting of the four ratios
    companies,        \* the static list of company records (mockData)
    selectedCompany,  \* useState(null) of App, as of the last render
    creditScore,      \* useState(null) of App, as of the last render
    pending,          \* state updates enqueued by set* and not yet rendered
    view,             \* what the last render of App put on screen
    ticker,           \* argument of the latest handleCompanySelect call
    prevTicker        \* argument of the call before it

vars == <<weights, companies, selectedCompany, creditScore, pending, view,
          ticker, prevTicker>>

----------------------------------------------------------------------------
\* Bounds of the model

NumCompanies == 3

MaxRatio == 1

MaxWeight == 1

ScoreMargin == 5

----------------------------------------------------------------------------
\* JavaScript values

Null == <<>>

Some(v) == <<v>>

\* ToNumber of a score as the relational operators apply it: null is 0.
ToNumber(score) == IF score = Null THEN 0 ELSE score[1]

----------------------------------------------------------------------------
\* data/mockData and utils/creditScoreCalculator

TickerNames == <<"AAPL", "MSFT", "GOOGL", "TSLA">>

AbsentTicker == "ZZZZ"

NoTicker == ""

RatioValues == (0 - 1)..MaxRatio

Ratios == [currentRatio : RatioValues, debtRatio : RatioValues,
           roe : RatioValues, roa : RatioValues]

SampleRatios ==
    { [currentRatio |-> 1, debtRatio |-> 0, roe |-> 1, roa |-> 1],
      [currentRatio |-> 1, debtRatio |-> 1, roe |-> 0, roa |-> 0],
      [currentRatio |-> 0, debtRatio |-> 1, roe |-> 0 - 1, roa |-> 0] }

CompanyRecord(t, r) ==
    [ticker |-> t, currentRatio |-> r.currentRatio, debtRatio |-> r.debtRatio,
     roe |-> r.roe, roa |-> r.roa]

WeightValues == 0..MaxWeight

Weightings == [currentRatio : WeightValues, debtRatio : WeightValues,
               roe : WeightValues, roa : WeightValues]

MinScore == 0

MaxScore == 100

BaseScore == 50

WeightUnit == 20

\* Clamp with the bounds left out.
ClampNone(x) == x

Clamp(x) == IF x < MinScore THEN MinScore ELSE IF x > MaxScore THEN MaxScore ELSE x

\* RawScore with the debt ratio added instead of subtracted.
RawScoreDebtAdded(w, c) ==
    BaseScore + WeightUnit * (  w.currentRatio * c.currentRatio
                              + w.roe * c.roe
                              + w.roa * c.roa
                              + w.debtRatio * c.debtRatio)

RawScore(w, c) ==
    BaseScore + WeightUnit * (  w.currentRatio * c.currentRatio
                              + w.roe * c.roe
                              + w.roa * c.roa
                              - w.debtRatio * c.debtRatio)

calculateCreditScore(w, c) == Clamp(RawScore(w, c))

----------------------------------------------------------------------------
\* CreditScoreDisplay (src/unnamed/part_001)

\* getScoreColor cut at the quarter marks of the score bar.
getScoreColorQuarters(score) ==
    IF ToNumber(score) >= 75 THEN "#10b981"
    ELSE IF ToNumber(score) >= 50 THEN "#f59e0b"
    ELSE IF ToNumber(score) >= 25 THEN "#f97316"
    ELSE "#ef4444"

getScoreColor(score) ==
    IF ToNumber(score) >= 80 THEN "#10b981"
    ELSE IF ToNumber(score) >= 60 THEN "#f59e0b"
    ELSE IF ToNumber(score) >= 40 THEN "#f97316"
    ELSE "#ef4444"

\* getScoreGrade with strict comparisons.
getScoreGradeStrict(score) ==
    IF ToNumber(score) > 90 THEN "AAA"
    ELSE IF ToNumber(score) > 80 THEN "AA"
    ELSE IF ToNumber(score) > 70 THEN "A"
    ELSE IF ToNumber(score) > 60 THEN "BBB"
    ELSE IF ToNumber(score) > 50 THEN "BB"
    ELSE IF ToNumber(score) > 40 THEN "B"
    ELSE "CCC"

getScoreGrade(score) ==
    IF ToNumber(score) >= 90 THEN "AAA"
    ELSE IF ToNumber(score) >= 80 THEN "AA"
    ELSE IF ToNumber(score) >= 70 THEN "A"
    ELSE IF ToNumber(score) >= 60 THEN "BBB"
    ELSE IF ToNumber(score) >= 50 THEN "BB"
    ELSE IF ToNumber(score) >= 40 THEN "B"
    ELSE "CCC"

\* getRiskLevel with strict comparisons.
getRiskLevelStrict(score) ==
    IF ToNumber(score) > 80 THEN "Low Risk"
    ELSE IF ToNumber(score) > 60 THEN "Medium Risk"
    ELSE "High Risk"

getRiskLevel(score) ==
    IF ToNumber(score) >= 80 THEN "Low Risk"
    ELSE IF ToNumber(score) >= 60 THEN "Medium Risk"
    ELSE "High Risk"

\* What CreditScoreDisplay shows for its props.
CreditScoreDisplay(company, score) ==
    [dashboard |-> TRUE, company |-> Some(company), score |-> score,
     color |-> getScoreColor(score), grade |-> getScoreGrade(score),
     risk |-> getRiskLevel(score)]

NoDashboard ==
    [dashboard |-> FALSE, company |-> Null, score |-> Null,
     color |-> "", grade |-> "", risk |-> ""]

----------------------------------------------------------------------------
\* App (src/src/App.js)

\* companies.find(c => c.ticker === t): the first match, or Null (undefined).
find(list, t) ==
    LET hits == {i \in 1..Len(list) : list[i].ticker = t}
    IN  IF hits = {} THEN Null
        ELSE Some(list[CHOOSE i \in hits : \A j \in hits : i <= j])

\* The return value of App for one render: the dashboard only under
\* {selectedCompany && ...}.
RenderApp(company, score) ==
    IF company # Null THEN CreditScoreDisplay(company[1], score) ELSE NoDashboard

\* The state after the queued updates are applied in order.
RECURSIVE ApplyUpdates(_, _)
ApplyUpdates(st, q) ==
    IF q = <<>> THEN st
    ELSE ApplyUpdates([st EXCEPT ![Head(q).slot] = Head(q).value], Tail(q))

\* SelectUpdates without the if (company) test: the lookup's result is stored
\* whatever it is.
SelectUpdatesUnguarded(w, list, t) ==
    LET company == find(list, t)
    IN  IF company # Null
        THEN << [slot |-> "selectedCompany", value |-> company],
                [slot |-> "creditScore",
                 value |-> Some(calculateCreditScore(w, company[1]))] >>
        ELSE << [slot |-> "selectedCompany", value |-> Null] >>

\* SelectUpdates scoring the head of the list instead of the record found.
SelectUpdatesScoreFirst(w, list, t) ==
    LET company == find(list, t)
    IN  IF company # Null
        THEN << [slot |-> "selectedCompany", value |-> company],
                [slot |-> "creditScore",
                 value |-> Some(calculateCreditScore(w, list[1]))] >>
        ELSE <<>>

\* SelectUpdates without the setCreditScore call.
SelectUpdatesNoScore(w, list, t) ==
    LET company == find(list, t)
    IN  IF company # Null
        THEN << [slot |-> "selectedCompany", value |-> company] >>
        ELSE <<>>

\* The updates handleCompanySelect(t) enqueues.
SelectUpdates(w, list, t) ==
    LET company == find(list, t)
    IN  IF company # Null
        THEN << [slot |-> "selectedCompany", value |-> company],
                [slot |-> "creditScore",
                 value |-> Some(calculateCreditScore(w, company[1]))] >>
        ELSE <<>>

\* A render after every single update.
BatchOne(q) == 1

\* Which of the queued updates one render consumes: all of them (the
\* updates of one event handler are batched).
Batch(q) == Len(q)

\* The tickers a caller may pass: those of the buttons CompanySelector renders
\* (one per company of the list) and one that names no record.
Inputs == {companies[i].ticker : i \in 1..Len(companies)} \cup {AbsentTicker}

\* handleCompanySelect that deselects a company selected again.
handleCompanySelectToggle(t) ==
    /\ pending = <<>>
    /\ pending' = IF selectedCompany # Null /\ selectedCompany[1].ticker = t
                  THEN << [slot |-> "selectedCompany", value |-> Null],
                          [slot |-> "creditScore", value |-> Null] >>
                  ELSE SelectUpdates(weights, companies, t)
    /\ ticker' = t
    /\ prevTicker' = ticker
    /\ UNCHANGED <<weights, companies, selectedCompany, creditScore, view>>

handleCompanySelect(t) ==
    /\ pending = <<>>
    /\ pending' = SelectUpdates(weights, companies, t)
    /\ ticker' = t
    /\ prevTicker' = ticker
    /\ UNCHANGED <<weights, companies, selectedCompany, creditScore, view>>

Render ==
    /\ pending # <<>>
    /\ LET n  == Batch(pending)
           st == ApplyUpdates([selectedCompany |-> selectedCompany,
                               creditScore |-> creditScore],
                              SubSeq(pending, 1, n))
       IN  /\ selectedCompany' = st.selectedCompany
           /\ creditScore' = st.creditScore
           /\ pending' = SubSeq(pending, n + 1, Len(pending))
           /\ view' = RenderApp(st.selectedCompany, st.creditScore)
    /\ UNCHANGED <<weights, companies, ticker, prevTicker>>

Mounted ==
    /\ selectedCompany = Null
    /\ creditScore = Null
    /\ pending = <<>>
    /\ view = RenderApp(Null, Null)
    /\ ticker = NoTicker
    /\ prevTicker = NoTicker

Init ==
    /\ weights \in Weightings
    /\ \E data \in [1..NumCompanies -> SampleRatios] :
          companies = [i \in 1..NumCompanies |->
                          CompanyRecord(TickerNames[i], data[i])]
    /\ Mounted

Next ==
    \/ \E t \in Inputs : handleCompanySelect(t)
    \/ Render

Spec == Init /\ [][Next]_vars

----------------------------------------------------------------------------
\* The calculator over the grid of records: a list of two records, the second
\* being the first with one ratio raised.

Fields == {"currentRatio", "debtRatio", "roe", "roa"}

\* b is a with field f raised and every other ratio as it was.
Raised(a, b, f) ==
    /\ b[f] > a[f]
    /\ \A g \in Fields \ {f} : b[g] = a[g]

InitCalc ==
    /\ weights \in Weightings
    /\ \E r \in Ratios, f \in Fields, v \in RatioValues :
          /\ v > r[f]
          /\ companies = << CompanyRecord(TickerNames[1], r),
                            CompanyRecord(TickerNames[2], [r EXCEPT ![f] = v]) >>
    /\ Mounted

SpecCalc == InitCalc /\ [][Next]_vars

----------------------------------------------------------------------------
\* CreditScoreDisplay on its own: rendered with a company and any score.

Scores == (MinScore - ScoreMargin)..(MaxScore + ScoreMargin)

InitDisplay ==
    /\ weights \in Weightings
    /\ \E r \in SampleRatios : companies = << CompanyRecord(TickerNames[1], r) >>
    /\ selectedCompany = Some(companies[1])
    /\ creditScore \in {Some(s) : s \in Scores}
    /\ pending = <<>>
    /\ view = NoDashboard
    /\ ticker = TickerNames[1]
    /\ prevTicker = NoTicker

DisplayRender ==
    /\ view = NoDashboard
    /\ view' = CreditScoreDisplay(selectedCompany[1], creditScore)
    /\ UNCHANGED <<weights, companies, selectedCompany, creditScore, pending,
                   ticker, prevTicker>>

NextDisplay == DisplayRender

SpecDisplay == InitDisplay /\ [][NextDisplay]_vars

----------------------------------------------------------------------------
\* Properties

Present(t) == find(companies, t) # Null

ScoreOf(company) == Some(calculateCreditScore(weights, company[1]))

\* C1: handleCompanySelect(T) with T matching no record is a no-op: every
\* step that ends with an absent ticker as the latest argument leaves
\* selectedCompany and creditScore as they were, enqueues no update and
\* changes nothing on screen.
C1_AbsentTickerIsNoOp ==
    [][ ~Present(ticker')
          => UNCHANGED <<selectedCompany, creditScore, pending, view>> ]_vars

\* An absent ticker was passed while a company was selected and shown.
C1_Witness ==
    /\ ticker = AbsentTicker
    /\ Present(prevTicker)
    /\ selectedCompany = find(companies, prevTicker)
    /\ creditScore # Null
    /\ pending = <<>>

\* C2: once a selection of a present ticker T is complete (its updates are
\* rendered), selectedCompany is the record of T; and the stored score is
\* always calculateCreditScore of the selected company.
C2_ScoreBelongsToSelection ==
    /\ selectedCompany # Null => creditScore = ScoreOf(selectedCompany)
    /\ (pending = <<>> /\ Present(ticker))
          => selectedCompany = find(companies, ticker)

\* A company was selected after another one whose score differs.
C2_Witness ==
    /\ pending = <<>>
    /\ Present(ticker)
    /\ Present(prevTicker)
    /\ ticker # prevTicker
    /\ selectedCompany = find(companies, ticker)
    /\ creditScore # ScoreOf(find(companies, prevTicker))

\* C3: selectedCompany and creditScore are both null before any call, and in
\* every reachable state both are null or both are non-null.
C3_BothOrNeither ==
    /\ (selectedCompany = Null) <=> (creditScore = Null)
    /\ ticker = NoTicker => selectedCompany = Null /\ creditScore = Null

\* A company is selected, with a score, and shown.
C3_Witness ==
    /\ selectedCompany # Null
    /\ creditScore # Null
    /\ view.dashboard

\* C4: the grade shown is the one of the threshold table: >= 90 AAA, 80..89 AA,
\* 70..79 A, 60..69 BBB, 50..59 BB, 40..49 B, below 40 CCC.
C4_GradeTable ==
    view.dashboard =>
        LET s == view.score[1]
        IN  /\ s >= 90 => view.grade = "AAA"
            /\ s \in 80..89 => view.grade = "AA"
            /\ s \in 70..79 => view.grade = "A"
            /\ s \in 60..69 => view.grade = "BBB"
            /\ s \in 50..59 => view.grade = "BB"
            /\ s \in 40..49 => view.grade = "B"
            /\ s < 40 => view.grade = "CCC"

\* The display shows grade AAA for the score 90, a boundary of the table.
C4_Witness ==
    /\ view.dashboard
    /\ view.score = Some(90)
    /\ view.grade = "AAA"

\* C5: the risk level shown is Low Risk for a score >= 80, Medium Risk for
\* 60 <= score < 80 and High Risk for a score < 60.
C5_RiskBands ==
    view.dashboard =>
        LET s == view.score[1]
        IN  /\ s >= 80 => view.risk = "Low Risk"
            /\ (60 <= s /\ s < 80) => view.risk = "Medium Risk"
            /\ s < 60 => view.risk = "High Risk"

\* The display shows Medium Risk for the score 60, a boundary of the bands.
C5_Witness ==
    /\ view.dashboard
    /\ view.score = Some(60)
    /\ view.risk = "Medium Risk"

\* C6: calculateCreditScore of every record of the list lies in [0, 100], and
\* the creditScore held by App is null or lies in [0, 100].
C6_ScoreInRange ==
    /\ \A i \in 1..Len(companies) :
          calculateCreditScore(weights, companies[i]) \in MinScore..MaxScore
    /\ creditScore = Null \/ creditScore[1] \in MinScore..MaxScore

\* A company whose weighted sum exceeds 100 is selected and its score is 100.
C6_Witness ==
    /\ selectedCompany # Null
    /\ RawScore(weights, selectedCompany[1]) > MaxScore
    /\ creditScore = Some(MaxScore)

\* C7: raising currentRatio, roe or roa with the other fields fixed never
\* lowers the score, and raising debtRatio with the other fields fixed never
\* raises it.
C7_Monotonic ==
    \A i, j \in 1..Len(companies) :
        LET a  == companies[i]
            b  == companies[j]
            sa == calculateCreditScore(weights, a)
            sb == calculateCreditScore(weights, b)
        IN  /\ Raised(a, b, "currentRatio") => sb >= sa
            /\ Raised(a, b, "roe") => sb >= sa
            /\ Raised(a, b, "roa") => sb >= sa
            /\ Raised(a, b, "debtRatio") => sb <= sa

\* The second record is the first with a higher debtRatio, its score is
\* strictly lower, and it is the one selected.
C7_Witness ==
    /\ Len(companies) = 2
    /\ Raised(companies[1], companies[2], "debtRatio")
    /\ calculateCreditScore(weights, companies[2])
          < calculateCreditScore(weights, companies[1])
    /\ selectedCompany = Some(companies[2])
    /\ creditScore = ScoreOf(selectedCompany)

\* C8: selecting the same present ticker twice in a row leaves App as selecting
\* it once did: the render of the second selection changes neither
\* selectedCompany nor creditScore nor the screen.
C8_SameTickerTwice ==
    [][ (pending # <<>> /\ ticker = prevTicker)
          => /\ selectedCompany' = selectedCompany
             /\ creditScore' = creditScore
             /\ view' = view ]_vars

\* The same present ticker was selected twice in a row and both selections
\* are rendered.
C8_Witness ==
    /\ pending = <<>>
    /\ ticker = prevTicker
    /\ Present(ticker)
    /\ selectedCompany = find(companies, ticker)
    /\ view.dashboard

\* C9: the dashboard is on screen exactly when a company is selected, and the
\* score CreditScoreDisplay is given is the score of the company it is given.
C9_RenderConsistent ==
    /\ view.dashboard <=> selectedCompany # Null
    /\ view.dashboard =>
          /\ view.company = selectedCompany
          /\ view.score = creditScore
          /\ view.score = ScoreOf(view.company)

\* The screen shows a company selected after another one whose score differs.
C9_Witness ==
    /\ view.dashboard
    /\ Present(prevTicker)
    /\ ticker # prevTicker
    /\ view.company = find(companies, ticker)
    /\ view.score # ScoreOf(find(companies, prevTicker))

\* C10: the three classifications agree: Low Risk exactly with grade AAA or AA
\* and colour green; Medium Risk exactly with grade A or BBB and colour yellow;
\* High Risk exactly with grade BB, B or CCC, coloured orange for BB and B and
\* red for CCC.
C10_ClassificationsAgree ==
    view.dashboard =>
        /\ view.risk = "Low Risk" <=> view.grade \in {"AAA", "AA"}
        /\ view.risk = "Low Risk" <=> view.color = "#10b981"
        /\ view.risk = "Medium Risk" <=> view.grade \in {"A", "BBB"}
        /\ view.risk = "Medium Risk" <=> view.color = "#f59e0b"
        /\ view.risk = "High Risk" <=> view.grade \in {"BB", "B", "CCC"}
        /\ view.grade \in {"BB", "B"} <=> view.color = "#f97316"
        /\ view.grade = "CCC" <=> view.color = "#ef4444"

\* The display shows a High Risk score of grade B in orange.
C10_Witness ==
    /\ view.dashboard
    /\ view.risk = "High Risk"
    /\ view.grade = "B"
    /\ view.color = "#f97316"

====
